---- MODULE Spec2Model ----
(***************************************************************************)
(* Model of the live tutoring gateway of Kno-AI                            *)
(* (src/study-session/live-active-learning/main.py): the websocket         *)
(* endpoint, its upstream and downstream tasks, the session service and    *)
(* the live request queue it drives.                                       *)
(*                                                                         *)
(* Strings are sequences of one-character strings; bytes are numbers       *)
(* 0..255.  Every asyncio suspension point (await) is a step boundary.     *)
(***************************************************************************)
EXTENDS Integers, Sequences, FiniteSets, TLC

(***************************************************************************)
(* Bounds of the model.                                                    *)
(***************************************************************************)
\* inbound transport messages received on one connection (Spec)
MaxMsgs == 2
\* agent events produced on one connection (Spec)
MaxEvents == 2
\* the same two bounds when two connections overlap (SpecOverlap)
MaxMsgsOverlap == 1
MaxEventsOverlap == 1

Conns == {1, 2}

None == <<"<None>">>

\* the route's (user_id, session_id) pairs
IdU1S1 == <<<<"U", "1">>, <<"S", "1">>>>
IdU2S1 == <<<<"U", "2">>, <<"S", "1">>>>
Idents == {IdU1S1, IdU2S1}
NoIdent == <<None, None>>

(***************************************************************************)
(* json.loads and dict access.  A text payload is a sequence of tokens;    *)
(* it parses to an object when it is "{" pairs "}" and to a non-object     *)
(* (here a list) when it is "[" ... "]"; anything else raises.             *)
(***************************************************************************)
LBrace == [t |-> "{", k |-> <<>>, v |-> <<>>]
RBrace == [t |-> "}", k |-> <<>>, v |-> <<>>]
LBrack == [t |-> "[", k |-> <<>>, v |-> <<>>]
RBrack == [t |-> "]", k |-> <<>>, v |-> <<>>]
Junk == [t |-> "junk", k |-> <<>>, v |-> <<>>]
Pair(key, val) == [t |-> "pair", k |-> key, v |-> val]

Inner(raw) == SubSeq(raw, 2, Len(raw) - 1)

IsObjectText(raw) ==
    /\ Len(raw) >= 2
    /\ raw[1].t = "{"
    /\ raw[Len(raw)].t = "}"
    /\ \A i \in 2..(Len(raw) - 1) : raw[i].t = "pair"

IsArrayText(raw) ==
    /\ Len(raw) >= 2
    /\ raw[1].t = "["
    /\ raw[Len(raw)].t = "]"

\* the dict json.loads builds from an object text: the last pair of a key wins
ObjectOf(raw) ==
    LET pairs == Inner(raw)
        keys == {pairs[i].k : i \in 1..Len(pairs)}
        last(key) == CHOOSE i \in 1..Len(pairs) :
                        /\ pairs[i].k = key
                        /\ \A j \in (i + 1)..Len(pairs) : pairs[j].k # key
    IN [key \in keys |-> pairs[last(key)].v]

\* json.loads(text_data): ok = FALSE is JSONDecodeError
JsonLoads(raw) ==
    IF IsObjectText(raw) THEN [ok |-> TRUE, isDict |-> TRUE, dict |-> ObjectOf(raw)]
    ELSE IF IsArrayText(raw) THEN [ok |-> TRUE, isDict |-> FALSE, dict |-> <<>>]
    ELSE [ok |-> FALSE, isDict |-> FALSE, dict |-> <<>>]

\* dict.get(key): None when the key is absent
DictGet(d, key) == IF key \in DOMAIN d THEN d[key] ELSE None

(***************************************************************************)
(* base64.b64decode(s) with validate=False.                                *)
(***************************************************************************)
B64Alphabet ==
    << "A","B","C","D","E","F","G","H","I","J","K","L","M","N","O","P",
       "Q","R","S","T","U","V","W","X","Y","Z","a","b","c","d","e","f",
       "g","h","i","j","k","l","m","n","o","p","q","r","s","t","u","v",
       "w","x","y","z","0","1","2","3","4","5","6","7","8","9","+","/" >>

IsB64Char(ch) == \E i \in 1..Len(B64Alphabet) : B64Alphabet[i] = ch
B64IndexOneBased(ch) == CHOOSE i \in 1..Len(B64Alphabet) : B64Alphabet[i] = ch
B64Index(ch) == (CHOOSE i \in 1..Len(B64Alphabet) : B64Alphabet[i] = ch) - 1

\* one pass over the characters, as binascii.a2b_base64 does it: st holds
\* quad (position in the group of four), left (pending bits), pads (pad
\* characters seen in a row), out (bytes so far) and stop (a complete pad
\* sequence ended the parse)
RECURSIVE B64Scan(_, _, _)
B64Scan(s, i, st) ==
    IF i > Len(s) \/ st.stop THEN st
    ELSE IF s[i] = "=" THEN
        IF st.quad >= 2 /\ st.quad + st.pads + 1 >= 4
        THEN B64Scan(s, i + 1, [st EXCEPT !.stop = TRUE, !.quad = 0])
        ELSE IF st.quad >= 2
             THEN B64Scan(s, i + 1, [st EXCEPT !.pads = st.pads + 1])
             ELSE B64Scan(s, i + 1, st)
    ELSE IF ~IsB64Char(s[i]) THEN B64Scan(s, i + 1, st)
    ELSE
        LET c == B64Index(s[i]) IN
        CASE st.quad = 0 ->
               B64Scan(s, i + 1, [st EXCEPT !.quad = 1, !.left = c, !.pads = 0])
          [] st.quad = 1 ->
               B64Scan(s, i + 1,
                   [st EXCEPT !.quad = 2, !.pads = 0,
                              !.out = Append(st.out, (st.left * 4 + c \div 16) % 256),
                              !.left = c % 16])
          [] st.quad = 2 ->
               B64Scan(s, i + 1,
                   [st EXCEPT !.quad = 3, !.pads = 0,
                              !.out = Append(st.out, (st.left * 16 + c \div 4) % 256),
                              !.left = c % 4])
          [] st.quad = 3 ->
               B64Scan(s, i + 1,
                   [st EXCEPT !.quad = 0, !.pads = 0,
                              !.out = Append(st.out, (st.left * 64 + c) % 256),
                              !.left = 0])

\* ok = FALSE is an exception: TypeError for None, binascii.Error when data
\* characters are left over
B64Decode(s) ==
    IF s = None THEN [ok |-> FALSE, bytes |-> <<>>]
    ELSE LET st == B64Scan(s, 1, [quad |-> 0, left |-> 0, pads |-> 0,
                                   out |-> <<>>, stop |-> FALSE])
         IN IF st.quad # 0 THEN [ok |-> FALSE, bytes |-> <<>>]
            ELSE [ok |-> TRUE, bytes |-> st.out]

\* what a client puts in "data": the standard base64 text of the bytes b
B64Char(i) == B64Alphabet[i + 1]
RECURSIVE B64Encode(_)
B64Encode(b) ==
    IF b = <<>> THEN <<>>
    ELSE IF Len(b) = 1 THEN
        <<B64Char(b[1] \div 4), B64Char((b[1] % 4) * 16), "=", "=">>
    ELSE IF Len(b) = 2 THEN
        <<B64Char(b[1] \div 4), B64Char((b[1] % 4) * 16 + b[2] \div 16),
          B64Char((b[2] % 16) * 4), "=">>
    ELSE
        <<B64Char(b[1] \div 4), B64Char((b[1] % 4) * 16 + b[2] \div 16),
          B64Char((b[2] % 16) * 4 + b[3] \div 64), B64Char(b[3] % 64)>>
        \o B64Encode(SubSeq(b, 4, Len(b)))

(***************************************************************************)
(* Inbound transport messages (what websocket.receive() returns) and the   *)
(* queue entries the gateway builds from them.                             *)
(***************************************************************************)
TYPE == <<"t", "y", "p", "e">>
TEXT == <<"t", "e", "x", "t">>
IMAGE == <<"i", "m", "a", "g", "e">>
MIMETYPE == <<"mimeType">>
DATA == <<"d", "a", "t", "a">>
PING == <<"p", "i", "n", "g">>
HI == <<"h", "i">>
PNG == <<"image/png">>
AudioMime == <<"audio/pcm;rate=16000">>

BytesMsg(b) == [key |-> "bytes", bytes |-> b, text |-> <<>>]
TextMsg(raw) == [key |-> "text", bytes |-> <<>>, text |-> raw]
\* {"type": "websocket.disconnect"}: neither a "bytes" nor a "text" key
DisconnectMsg == [key |-> "none", bytes |-> <<>>, text |-> <<>>]
Obj(pairs) == <<LBrace>> \o pairs \o <<RBrace>>

MsgAudio == BytesMsg(<<0, 1>>)
MsgHi == TextMsg(Obj(<<Pair(TYPE, TEXT), Pair(TEXT, HI)>>))
\* "AAE=" is the base64 of the bytes 0x00 0x01
MsgImage == TextMsg(Obj(<<Pair(TYPE, IMAGE), Pair(MIMETYPE, PNG),
                          Pair(DATA, <<"A", "A", "E", "=">>)>>))
MsgImageBadData == TextMsg(Obj(<<Pair(TYPE, IMAGE), Pair(MIMETYPE, PNG),
                                 Pair(DATA, <<"A">>)>>))
MsgImageNoData == TextMsg(Obj(<<Pair(TYPE, IMAGE), Pair(MIMETYPE, PNG)>>))
MsgNotJson == TextMsg(<<Junk>>)
MsgArray == TextMsg(<<LBrack, RBrack>>)
MsgTextNoText == TextMsg(Obj(<<Pair(TYPE, TEXT)>>))
MsgUnknownType == TextMsg(Obj(<<Pair(TYPE, PING)>>))

\* image frames over payloads of every padding length (SpecImage)
JPEG == <<"image/jpeg">>
ImageMimes == {PNG, JPEG}
ImagePayloads == {<<>>, <<0>>, <<255>>, <<0, 1>>, <<255, 254>>, <<1, 2, 3>>,
                  <<250, 251, 252, 253>>}
ImageMsg(m, b) == TextMsg(Obj(<<Pair(TYPE, IMAGE), Pair(MIMETYPE, m),
                                Pair(DATA, B64Encode(b))>>))
InboundImage == {ImageMsg(m, b) : m \in ImageMimes, b \in ImagePayloads}

\* the messages a client sends in Spec, and in SpecOverlap
Inbound == {MsgAudio, MsgHi, MsgImage, MsgImageBadData, MsgImageNoData,
            MsgNotJson, MsgArray, MsgTextNoText, MsgUnknownType}
InboundOverlap == {MsgAudio, MsgNotJson}
InboundFair == {MsgAudio, MsgHi, MsgNotJson}

\* a LiveRequest on the queue: call is the queue method that made it, src
\* the number of the received message it was built from (0: none)
ContentEntry(role, text, src) ==
    [call |-> "send_content", role |-> role, text |-> text,
     mime |-> <<>>, data |-> <<>>, src |-> src]
BlobEntry(mime, data, src) ==
    [call |-> "send_realtime", role |-> <<>>, text |-> <<>>,
     mime |-> mime, data |-> data, src |-> src]

\* the f-string of the context message
ContextText(id) ==
    <<"System Note: The current user is ">> \o id[1]
        \o <<" and the session is ">> \o id[2] \o <<".">>
ContextEntry(id) == ContentEntry(<<"user">>, ContextText(id), 0)
IsContext(e) == e.call = "send_content" /\ e.role = <<"user">>

\* LiveRequestQueue.send_content / send_realtime: put at the tail
EnqueueFront(q, e) == <<e>> \o q
Enqueue(q, e) == Append(q, e)

\* the entries the handler puts on a new queue before the tasks exist
NoInitialPushes(id) == <<>>
ContextTwice(id) == <<ContextEntry(id), ContextEntry(id)>>
InitialPushes(id) == <<ContextEntry(id)>>

(***************************************************************************)
(* One pass of the upstream loop body on message m, the n-th received:     *)
(* push is the entries to enqueue, raises tells whether an exception       *)
(* leaves the loop (only WebSocketDisconnect is caught around it).         *)
(***************************************************************************)
NoPush == [push |-> <<>>, raises |-> FALSE]
Raise == [push |-> <<>>, raises |-> TRUE]
Push(e) == [push |-> <<e>>, raises |-> FALSE]

\* the try / except Exception around the decode keeps a failure in the loop
HandleImageNoCatch(d, n) ==
    LET mime_type == DictGet(d, MIMETYPE)
        dec == B64Decode(DictGet(d, DATA))
    IN IF dec.ok THEN Push(BlobEntry(mime_type, dec.bytes, n)) ELSE Raise
HandleImage(d, n) ==
    LET mime_type == DictGet(d, MIMETYPE)
        dec == B64Decode(DictGet(d, DATA))
    IN IF dec.ok THEN Push(BlobEntry(mime_type, dec.bytes, n)) ELSE NoPush

\* neither branch of the if/elif on msg_type matches: the loop body ends
HandleUnknownRaises(d, n) == Raise
HandleUnknown(d, n) == NoPush

HandleText(raw, n) ==
    LET j == JsonLoads(raw) IN
    IF ~j.ok THEN Raise                      \* JSONDecodeError
    ELSE IF ~j.isDict THEN Raise             \* AttributeError: no .get
    ELSE LET msg_type == DictGet(j.dict, TYPE) IN
         IF msg_type = TEXT THEN
             IF TEXT \in DOMAIN j.dict
             THEN Push(ContentEntry(<<>>, j.dict[TEXT], n))
             ELSE Raise                      \* KeyError: 'text'
         ELSE IF msg_type = IMAGE THEN HandleImage(j.dict, n)
         ELSE HandleUnknown(j.dict, n)

\* if "bytes" in message: one Blob with the message's bytes, one
\* send_realtime call
HandleBytesSplit(m, n) ==
    [push |-> [i \in 1..Len(m.bytes) |-> BlobEntry(AudioMime, <<m.bytes[i]>>, n)],
     raises |-> FALSE]
HandleBytes(m, n) == Push(BlobEntry(AudioMime, m.bytes, n))

HandleMessage(m, n) ==
    IF m.key = "bytes" THEN HandleBytes(m, n)
    ELSE IF m.key = "text" THEN HandleText(m.text, n)
    ELSE NoPush


(***************************************************************************)
(* Agent events (what runner.run_live yields) and the transport messages   *)
(* the downstream loop body sends for one of them.                         *)
(***************************************************************************)
NoTr == [present |-> FALSE, text |-> <<>>, finished |-> FALSE]
Tr(text, fin) == [present |-> TRUE, text |-> text, finished |-> fin]
AudioPart(b) == [inline |-> TRUE, mime |-> <<"audio/pcm", ";rate=24000">>, data |-> b]
TextPart == [inline |-> FALSE, mime |-> <<>>, data |-> <<>>]
Event(parts, inTr, outTr) ==
    [content |-> [present |-> parts # <<>>, parts |-> parts],
     input_transcription |-> inTr, output_transcription |-> outTr,
     author |-> <<"tutor_agent">>]

EvAudio == Event(<<AudioPart(<<0, 1>>)>>, NoTr, NoTr)
EvOutputTr == Event(<<>>, NoTr, Tr(HI, FALSE))
EvAudioTr == Event(<<AudioPart(<<7>>), TextPart, AudioPart(<<8>>)>>, Tr(HI, TRUE), NoTr)
EvOther == Event(<<TextPart>>, NoTr, NoTr)
EvNone == Event(<<>>, NoTr, NoTr)

Events == {EvAudio, EvOutputTr, EvAudioTr, EvOther}
EventsOverlap == {EvAudio}
EventsFair == {EvAudio, EvOther}

\* part.inline_data and part.inline_data.mime_type.startswith("audio/pcm")
IsAudioPart(part) ==
    part.inline /\ Len(part.mime) >= 1 /\ part.mime[1] = "audio/pcm"

\* event.model_dump_json(exclude_none=True, by_alias=True): keys are the
\* aliases of the fields that are not None, val carries their values
ModelDumpJsonAll(ev) ==
    [keys |-> {"author", "content", "inputTranscription", "outputTranscription"},
     val |-> ev]
ModelDumpJson(ev) ==
    [keys |-> {"author"}
                \cup (IF ev.content.present THEN {"content"} ELSE {})
                \cup (IF ev.input_transcription.present
                      THEN {"inputTranscription"} ELSE {})
                \cup (IF ev.output_transcription.present
                      THEN {"outputTranscription"} ELSE {}),
     val |-> ev]
NoJson == [keys |-> {}, val |-> EvNone]

SentBytes(b, n) == [kind |-> "bytes", bytes |-> b, json |-> NoJson, ev |-> n]
SentText(j, n) == [kind |-> "text", bytes |-> <<>>, json |-> j, ev |-> n]

\* for part in event.content.parts: one send_bytes per audio part
RECURSIVE MergedAudio(_)
MergedAudio(parts) ==
    IF parts = <<>> THEN <<>>
    ELSE (IF IsAudioPart(Head(parts)) THEN Head(parts).data ELSE <<>>)
         \o MergedAudio(Tail(parts))
AudioSendsMerged(parts, n) ==
    IF MergedAudio(parts) = <<>> THEN <<>> ELSE <<SentBytes(MergedAudio(parts), n)>>
RECURSIVE AudioSends(_, _)
AudioSends(parts, n) ==
    IF parts = <<>> THEN <<>>
    ELSE (IF IsAudioPart(Head(parts))
          THEN <<SentBytes(Head(parts).data, n)>> ELSE <<>>)
         \o AudioSends(Tail(parts), n)

\* the sends of one pass of the downstream loop body, in program order
OutboundAlwaysText(ev, n) ==
    (IF ev.content.present /\ ev.content.parts # <<>>
     THEN AudioSends(ev.content.parts, n) ELSE <<>>)
    \o <<SentText(ModelDumpJson(ev), n)>>
Outbound(ev, n) ==
    (IF ev.content.present /\ ev.content.parts # <<>>
     THEN AudioSends(ev.content.parts, n) ELSE <<>>)
    \o (IF ev.input_transcription.present \/ ev.output_transcription.present
        THEN <<SentText(ModelDumpJson(ev), n)>> ELSE <<>>)

(***************************************************************************)
(* State.                                                                  *)
(***************************************************************************)
VARIABLES
    quota,        \* what the environment may do in this specification
    store,        \* session_service: the identities that have a session
    creates,      \* create_session calls that returned, per identity
    ident,        \* the (user_id, session_id) of the connection's route
    hpc,          \* websocket_endpoint: where the handler is
    accepted,     \* websocket.accept() was called
    found,        \* the session get_session returned was truthy
    qexists,      \* live_request_queue was constructed
    pushed,       \* every entry put on live_request_queue, in order
    qclosed,      \* live_request_queue.close() was called
    qCloseCalls,  \* number of live_request_queue.close() calls
    wsCloseCalls, \* number of websocket.close() calls
    upc,          \* upstream_task: "none", "receiving", "done"
    uout,         \* how upstream_task ended: "clean" or "error"
    discSeen,     \* receive() has returned the disconnect message
    inlog,        \* every message receive() returned, in order
    dpc,          \* downstream_task: "none", "pulling", "done"
    dout,         \* how downstream_task ended: "ok" or "error"
    evlog,        \* every event run_live yielded, in order
    sent,         \* every message sent on the websocket, in order
    net,          \* the transport: "up", "closed" (by the client), "failed"
    stream        \* the agent event stream: "open", "ended", "raised"

hvars == <<ident, hpc, accepted, found, qexists, qclosed, qCloseCalls, wsCloseCalls>>
svars == <<store, creates>>
uvars == <<upc, uout, discSeen, inlog>>
dvars == <<dpc, dout, evlog, sent>>
gvars == <<quota, store, creates, ident, hpc, accepted, found, qexists, pushed,
           qclosed, qCloseCalls, wsCloseCalls, upc, uout, discSeen, inlog,
           dpc, dout, evlog, sent, net, stream>>

(***************************************************************************)
(* State of the onboarding chat service (chat_agent/agent.py): a second    *)
(* program of the repository, with its own process and its own state.      *)
(***************************************************************************)
\* time.time() runs over 0..MaxClock
MaxClock == 3
\* requests the service handles in a run
MaxCalls == 3
\* RateLimiter(max_requests, window_seconds) is built with max_requests in
\* 1..MaxLimit and window_seconds in 1..MaxWindow
MaxLimit == 2
MaxWindow == 2
\* is_allowed calls made on a limiter that is exercised by itself
MaxLimiterCalls == 5

\* the defaults of the two environment settings of the limiter
RATE_LIMIT_MAX_REQUESTS == 20
RATE_LIMIT_WINDOW_SECONDS == 60

Uids == {"u1", "u2"}
NoUid == "<no uid>"
\* requests in flight at the same time
Slots == {1, 2}

VARIABLES
    now,                  \* what time.time() returns
    limiter,              \* rate_limiter: max_requests and window_seconds
    requests,             \* rate_limiter._requests: uid -> list of timestamps
    granted,              \* per uid, the times of the calls that returned True
    lastCall,             \* the last is_allowed call: its number, uid, result
    users,                \* the users table: firebase uids in insertion order
    adkSessions,          \* session_service: the session ids it holds
    initialized_sessions, \* the module-level set of that name
    rpc,                  \* a request: "idle", "creating", "running"
    rkind,                \* its endpoint: "chat" or "welcome"
    ruid,                 \* its firebase_uid (= session_id)
    rdbid,                \* its user_db_id
    rcontent,             \* the text of the content it hands to the runner
    notes,                \* per session id, /chat contents that carry the note
    served                \* requests begun so far

ovars == <<now, limiter, requests, granted, lastCall, users, adkSessions,
           initialized_sessions, rpc, rkind, ruid, rdbid, rcontent, notes,
           served>>

vars == <<gvars, ovars>>

\* the state of the service after module import, with a limiter built as
\* RateLimiter(lim.max_requests, lim.window_seconds)
OnboardingInit(lim) ==
    /\ now = 0
    /\ limiter = lim
    /\ requests = [u \in Uids |-> <<>>]
    /\ granted = [u \in Uids |-> <<>>]
    /\ lastCall = [n |-> 0, uid |-> NoUid, ok |-> FALSE]
    /\ users = <<>>
    /\ adkSessions = {}
    /\ initialized_sessions = {}
    /\ rpc = [r \in Slots |-> "idle"]
    /\ rkind = [r \in Slots |-> "none"]
    /\ ruid = [r \in Slots |-> NoUid]
    /\ rdbid = [r \in Slots |-> 0]
    /\ rcontent = [r \in Slots |-> <<>>]
    /\ notes = [u \in Uids |-> 0]
    /\ served = 0

GatewayInit ==
    /\ store = {}
    /\ creates = [id \in Idents |-> 0]
    /\ ident = [c \in Conns |-> NoIdent]
    /\ hpc = [c \in Conns |-> "idle"]
    /\ accepted = [c \in Conns |-> FALSE]
    /\ found = [c \in Conns |-> FALSE]
    /\ qexists = [c \in Conns |-> FALSE]
    /\ pushed = [c \in Conns |-> <<>>]
    /\ qclosed = [c \in Conns |-> FALSE]
    /\ qCloseCalls = [c \in Conns |-> 0]
    /\ wsCloseCalls = [c \in Conns |-> 0]
    /\ upc = [c \in Conns |-> "none"]
    /\ uout = [c \in Conns |-> "none"]
    /\ discSeen = [c \in Conns |-> FALSE]
    /\ inlog = [c \in Conns |-> <<>>]
    /\ dpc = [c \in Conns |-> "none"]
    /\ dout = [c \in Conns |-> "none"]
    /\ evlog = [c \in Conns |-> <<>>]
    /\ sent = [c \in Conns |-> <<>>]
    /\ net = [c \in Conns |-> "up"]
    /\ stream = [c \in Conns |-> "open"]

\* the gateway before any connection, next to an idle onboarding service
InitState ==
    /\ GatewayInit
    /\ OnboardingInit([max_requests |-> RATE_LIMIT_MAX_REQUESTS,
                        window_seconds |-> RATE_LIMIT_WINDOW_SECONDS])

\* one connection, the full message and event alphabets
Init ==
    /\ InitState
    /\ quota = [conns |-> {1}, idents |-> {IdU1S1}, inbound |-> Inbound,
                events |-> Events, msgs |-> MaxMsgs, evs |-> MaxEvents,
                closeFails |-> FALSE]

\* two connections that may overlap and may carry the same identity
InitOverlap ==
    /\ InitState
    /\ quota = [conns |-> Conns, idents |-> Idents, inbound |-> InboundOverlap,
                events |-> EventsOverlap, msgs |-> MaxMsgsOverlap,
                evs |-> MaxEventsOverlap, closeFails |-> FALSE]


\* one connection, few messages: the state space the liveness checks walk
InitFair ==
    /\ InitState
    /\ quota = [conns |-> {1}, idents |-> {IdU1S1}, inbound |-> InboundFair,
                events |-> EventsFair, msgs |-> MaxMsgsOverlap,
                evs |-> MaxEventsOverlap, closeFails |-> FALSE]

\* one connection whose queue is a fake: its close() may raise
InitTeardown ==
    /\ InitState
    /\ quota = [conns |-> {1}, idents |-> {IdU1S1}, inbound |-> InboundFair,
                events |-> EventsFair, msgs |-> MaxMsgsOverlap,
                evs |-> MaxEventsOverlap, closeFails |-> TRUE]

\* one connection that sends image frames
InitImage ==
    /\ InitState
    /\ quota = [conns |-> {1}, idents |-> {IdU1S1}, inbound |-> InboundImage,
                events |-> EventsOverlap, msgs |-> MaxMsgsOverlap,
                evs |-> MaxEventsOverlap, closeFails |-> FALSE]

RECURSIVE EnqueueAll(_, _)
EnqueueAll(q, es) ==
    IF es = <<>> THEN q ELSE EnqueueAll(Enqueue(q, Head(es)), Tail(es))

(***************************************************************************)
(* websocket_endpoint.                                                     *)
(***************************************************************************)
\* a client connects on /ws/{user_id}/{session_id}; the handler accepts
Accept(c) ==
    /\ c \in quota.conns
    /\ hpc[c] = "idle"
    /\ \E id \in quota.idents : ident' = [ident EXCEPT ![c] = id]
    /\ accepted' = [accepted EXCEPT ![c] = TRUE]
    /\ hpc' = [hpc EXCEPT ![c] = "accepted"]
    /\ UNCHANGED <<ovars, quota, svars, found, qexists, pushed, qclosed, qCloseCalls,
                   wsCloseCalls, uvars, dvars, net, stream>>

\* session = await session_service.get_session(...)
GetSession(c) ==
    /\ hpc[c] = "accepted"
    /\ found' = [found EXCEPT ![c] = ident[c] \in store]
    /\ hpc' = [hpc EXCEPT ![c] = "checked"]
    /\ UNCHANGED <<ovars, quota, svars, ident, accepted, qexists, pushed, qclosed,
                   qCloseCalls, wsCloseCalls, uvars, dvars, net, stream>>

\* what create_session may do: on an identity that already has a session
\* the service either replaces it or raises AlreadyExistsError
CreateOutcomes(exists) == IF exists THEN {"created", "raised"} ELSE {"created"}

\* if not session: await session_service.create_session(...)
CreateSession(c) ==
    /\ hpc[c] = "checked"
    /\ ~found[c]
    /\ \E o \in CreateOutcomes(ident[c] \in store) :
          /\ store' = IF o = "created" THEN store \cup {ident[c]} ELSE store
          /\ creates' = IF o = "created"
                        THEN [creates EXCEPT ![ident[c]] = @ + 1] ELSE creates
          /\ hpc' = [hpc EXCEPT ![c] = IF o = "created" THEN "resolved" ELSE "raised"]
    /\ UNCHANGED <<ovars, quota, ident, accepted, found, qexists, pushed, qclosed,
                   qCloseCalls, wsCloseCalls, uvars, dvars, net, stream>>

\* live_request_queue is a local of the handler invocation: every
\* connection constructs and uses a queue of its own
SharedQueue(c) == 1
QueueOf(c) == c

\* live_request_queue = LiveRequestQueue(); send_content(context_message)
SetupQueue(c) ==
    /\ \/ hpc[c] = "checked" /\ found[c]
       \/ hpc[c] = "resolved"
    /\ qexists' = [qexists EXCEPT ![QueueOf(c)] = TRUE]
    /\ pushed' = [pushed EXCEPT ![QueueOf(c)] =
                     EnqueueAll(<<>>, InitialPushes(ident[c]))]
    /\ hpc' = [hpc EXCEPT ![c] = "queued"]
    /\ UNCHANGED <<ovars, quota, svars, ident, accepted, found, qclosed, qCloseCalls,
                   wsCloseCalls, uvars, dvars, net, stream>>

\* asyncio.gather(upstream_task(), downstream_task(), ...) schedules both
Launch(c) ==
    /\ hpc[c] = "queued"
    /\ hpc' = [hpc EXCEPT ![c] = "gathering"]
    /\ upc' = [upc EXCEPT ![c] = "receiving"]
    /\ dpc' = [dpc EXCEPT ![c] = "pulling"]
    /\ UNCHANGED <<ovars, quota, svars, ident, accepted, found, qexists, pushed, qclosed,
                   qCloseCalls, wsCloseCalls, uout, discSeen, inlog, dout, evlog,
                   sent, net, stream>>

\* when the await on gather(...) resumes: both tasks are done
JoinNoWait(u, d) == u # "none" /\ d # "none"
JoinFirstCompleted(u, d) == u = "done" \/ d = "done"
JoinNever(u, d) == FALSE
JoinDownstreamOnly(u, d) == d = "done"
JoinReady(u, d) == u = "done" /\ d = "done"

\* live_request_queue.close() in the finally block: the queue is closed
CloseSkipped(closed) == closed
CloseQueue(closed) == TRUE

\* what the call live_request_queue.close() does: the library's close()
\* puts a close request on an unbounded queue and returns; a fake may raise
CloseCallOutcomes(fails) == IF fails THEN {"closed", "raised"} ELSE {"closed"}

\* gather returns (return_exceptions=True: nothing is raised); finally:
\* live_request_queue.close(), with no handler around it: when close()
\* raises, the exception leaves websocket_endpoint
Join(c) ==
    /\ hpc[c] = "gathering"
    /\ JoinReady(upc[c], dpc[c])
    /\ \E o \in CloseCallOutcomes(quota.closeFails) :
          /\ qclosed' = [qclosed EXCEPT ![QueueOf(c)] =
                            IF o = "closed" THEN CloseQueue(@) ELSE @]
          /\ hpc' = [hpc EXCEPT ![c] = IF o = "closed" THEN "returned"
                                                        ELSE "close_raised"]
    /\ qCloseCalls' = [qCloseCalls EXCEPT ![c] = @ + 1]
    /\ UNCHANGED <<ovars, quota, svars, ident, accepted, found, qexists, pushed,
                   wsCloseCalls, uvars, dvars, net, stream>>

(***************************************************************************)
(* upstream_task.                                                          *)
(***************************************************************************)
\* receive() returns a data message and the loop body runs on it
UpReceiveMsg(c) ==
    /\ upc[c] = "receiving"
    /\ net[c] = "up"
    /\ Len(inlog[c]) < quota.msgs
    /\ \E m \in quota.inbound :
          LET r == HandleMessage(m, Len(inlog[c]) + 1) IN
          /\ inlog' = [inlog EXCEPT ![c] = Append(@, m)]
          /\ pushed' = [pushed EXCEPT ![QueueOf(c)] = EnqueueAll(@, r.push)]
          /\ upc' = [upc EXCEPT ![c] = IF r.raises THEN "done" ELSE "receiving"]
          /\ uout' = [uout EXCEPT ![c] = IF r.raises THEN "error" ELSE @]
    /\ UNCHANGED <<ovars, quota, svars, hvars, discSeen, dvars, net, stream>>

\* receive() after the client closed: the transport either raises
\* WebSocketDisconnect at once, or returns the disconnect message (which
\* the loop body ignores) and raises RuntimeError on the receive after it
CloseOutcomes(seen) == IF seen THEN {"RuntimeError"} ELSE {"WebSocketDisconnect", "message"}

UpReceiveClosed(c) ==
    /\ upc[c] = "receiving"
    /\ net[c] = "closed"
    /\ \E o \in CloseOutcomes(discSeen[c]) :
          /\ discSeen' = [discSeen EXCEPT ![c] = @ \/ o = "message"]
          /\ inlog' = [inlog EXCEPT ![c] = IF o = "message"
                                            THEN Append(@, DisconnectMsg) ELSE @]
          /\ upc' = [upc EXCEPT ![c] = IF o = "message" THEN "receiving" ELSE "done"]
          /\ uout' = [uout EXCEPT ![c] =
                        CASE o = "WebSocketDisconnect" -> "clean"
                          [] o = "RuntimeError" -> "error"
                          [] OTHER -> @]
    /\ UNCHANGED <<ovars, quota, svars, hvars, pushed, dvars, net, stream>>

\* receive() raises something else: the exception leaves upstream_task
UpReceiveFailed(c) ==
    /\ upc[c] = "receiving"
    /\ net[c] = "failed"
    /\ upc' = [upc EXCEPT ![c] = "done"]
    /\ uout' = [uout EXCEPT ![c] = "error"]
    /\ UNCHANGED <<ovars, quota, svars, hvars, pushed, discSeen, inlog, dvars, net, stream>>

(***************************************************************************)
(* downstream_task.                                                        *)
(***************************************************************************)
\* websocket.send_bytes / send_text: the messages leave in call order
TransmitFirst(s, outs) == outs \o s
Transmit(s, outs) == s \o outs

\* the except around the loop ends the task on the first exception
DownAfterRetry(failed) == "pulling"
DownAfter(failed) == IF failed THEN "done" ELSE "pulling"

\* how many of the sends of one event go through: a send on a transport
\* that is not up raises, and a send on one that is up may raise
SendCounts(up, n) == IF up THEN 0..n ELSE {0}

\* run_live yields an event and the loop body runs on it; an exception
\* is caught by the except around the loop and ends the task
DownEvent(c) ==
    /\ dpc[c] = "pulling"
    /\ stream[c] = "open"
    /\ Len(evlog[c]) < quota.evs
    /\ \E ev \in quota.events :
          LET outs == Outbound(ev, Len(evlog[c]) + 1) IN
          \E k \in SendCounts(net[c] = "up", Len(outs)) :
             /\ evlog' = [evlog EXCEPT ![c] = Append(@, ev)]
             /\ sent' = [sent EXCEPT ![c] = Transmit(@, SubSeq(outs, 1, k))]
             /\ dpc' = [dpc EXCEPT ![c] = DownAfter(k < Len(outs))]
             /\ dout' = [dout EXCEPT ![c] = IF k < Len(outs) THEN "error" ELSE @]
    /\ UNCHANGED <<ovars, quota, svars, hvars, pushed, uvars, net, stream>>

\* the async for ends: the stream completed (ok) or raised (caught, error)
DownStreamOver(c) ==
    /\ dpc[c] = "pulling"
    /\ stream[c] # "open"
    /\ dpc' = [dpc EXCEPT ![c] = "done"]
    /\ dout' = [dout EXCEPT ![c] = IF stream[c] = "ended" THEN "ok" ELSE "error"]
    /\ UNCHANGED <<ovars, quota, svars, hvars, pushed, uvars, evlog, sent, net, stream>>

(***************************************************************************)
(* The environment: the client, the transport and the agent runtime.       *)
(***************************************************************************)
Connected(c) == hpc[c] \in {"accepted", "checked", "resolved", "queued", "gathering"}

ClientClose(c) ==
    /\ Connected(c)
    /\ net[c] = "up"
    /\ net' = [net EXCEPT ![c] = "closed"]
    /\ UNCHANGED <<ovars, quota, svars, hvars, pushed, uvars, dvars, stream>>

TransportFail(c) ==
    /\ Connected(c)
    /\ net[c] = "up"
    /\ net' = [net EXCEPT ![c] = "failed"]
    /\ UNCHANGED <<ovars, quota, svars, hvars, pushed, uvars, dvars, stream>>

StreamEnd(c) ==
    /\ dpc[c] = "pulling"
    /\ stream[c] = "open"
    /\ stream' = [stream EXCEPT ![c] = "ended"]
    /\ UNCHANGED <<ovars, quota, svars, hvars, pushed, uvars, dvars, net>>

StreamRaise(c) ==
    /\ dpc[c] = "pulling"
    /\ stream[c] = "open"
    /\ stream' = [stream EXCEPT ![c] = "raised"]
    /\ UNCHANGED <<ovars, quota, svars, hvars, pushed, uvars, dvars, net>>

\* the steps the event loop takes without waiting for anyone
GatewayStep(c) ==
    \/ GetSession(c) \/ CreateSession(c) \/ SetupQueue(c) \/ Launch(c) \/ Join(c)
    \/ UpReceiveClosed(c) \/ UpReceiveFailed(c) \/ DownStreamOver(c)

EnvironmentStep(c) ==
    \/ Accept(c) \/ UpReceiveMsg(c) \/ DownEvent(c)
    \/ ClientClose(c) \/ TransportFail(c) \/ StreamEnd(c) \/ StreamRaise(c)

Next == \E c \in Conns : GatewayStep(c) \/ EnvironmentStep(c)

Spec == Init /\ [][Next]_vars
SpecOverlap == InitOverlap /\ [][Next]_vars
SpecImage == InitImage /\ [][Next]_vars
SpecTeardown == InitTeardown /\ [][Next]_vars
\* the event loop runs every task that is ready; clients and the agent
\* runtime are under no obligation
FairSpec == InitFair /\ [][Next]_vars /\ \A c \in Conns : WF_vars(GatewayStep(c))

\* the transport sooner or later reports the end of the connection and
\* the agent's stream sooner or later is over
TransportEnds(c) == ClientClose(c) \/ TransportFail(c)
StreamEnds(c) == StreamEnd(c) \/ StreamRaise(c)
LiveSpec ==
    /\ InitFair /\ [][Next]_vars
    /\ \A c \in Conns : /\ WF_vars(GatewayStep(c))
                         /\ WF_vars(TransportEnds(c))
                         /\ WF_vars(StreamEnds(c))


(***************************************************************************)
(* The onboarding chat service: RateLimiter, /chat and /chat/welcome.      *)
(***************************************************************************)
\* [t for t in self._requests[uid] if t > cutoff]
Prune(ts, cutoff) == SelectSeq(ts, LAMBDA t : t > cutoff)

\* RateLimiter.is_allowed(uid) at time t on the stored lists reqs: the
\* result and the lists after the call
IsAllowedOffByOne(lim, reqs, uid, t) ==
    LET kept == Prune(reqs[uid], t - lim.window_seconds) IN
    IF Len(kept) > lim.max_requests
    THEN [ok |-> FALSE, requests |-> [reqs EXCEPT ![uid] = kept]]
    ELSE [ok |-> TRUE, requests |-> [reqs EXCEPT ![uid] = Append(kept, t)]]
IsAllowedRecordsRefused(lim, reqs, uid, t) ==
    LET kept == Prune(reqs[uid], t - lim.window_seconds) IN
    [ok |-> Len(kept) < lim.max_requests,
     requests |-> [reqs EXCEPT ![uid] = Append(kept, t)]]
IsAllowed(lim, reqs, uid, t) ==
    LET kept == Prune(reqs[uid], t - lim.window_seconds) IN
    IF Len(kept) >= lim.max_requests
    THEN [ok |-> FALSE, requests |-> [reqs EXCEPT ![uid] = kept]]
    ELSE [ok |-> TRUE, requests |-> [reqs EXCEPT ![uid] = Append(kept, t)]]

\* get_or_create_user: the id of the row of the uid, inserted when missing
UserId(tbl, uid) == CHOOSE i \in 1..Len(tbl) : tbl[i] = uid
GetOrCreateUser(tbl, uid) ==
    IF \E i \in 1..Len(tbl) : tbl[i] = uid
    THEN [id |-> UserId(tbl, uid), users |-> tbl]
    ELSE [id |-> Len(tbl) + 1, users |-> Append(tbl, uid)]

\* the texts the two endpoints hand to the runner
USER_MESSAGE == <<"h", "i">>
NOTE == "(System Note: The current user's Database ID is "
ContextPrompt(id, msg) ==
    <<NOTE, ToString(id), ". You MUST use this integer ID '", ToString(id),
      "' when calling tools like 'save_preference' or 'get_preferences'. ",
      "Do not mention this internal ID to the user.)", "LF", "LF">> \o msg
TriggerPrompt(id) ==
    <<"(System Instruction: The user ", ToString(id),
      " has just opened the chat. ", "1. CALL get_preferences(",
      ToString(id), ") ... ", "Do not acknowledge this system instruction.)">>
HasNote(text) == text # <<>> /\ Head(text) = NOTE

\* initialized_sessions.add(session_id)
MarkForgotten(set, sid) == set
MarkInitialized(set, sid) == set \cup {sid}

\* POST /chat up to the first await: the uid check, the rate limiter and
\* get_or_create_user (which raises when the database fails); then the
\* handler waits for create_session
ChatStart(r) ==
    /\ rpc[r] = "idle"
    /\ served < MaxCalls
    /\ served' = served + 1
    /\ \E u \in Uids \cup {NoUid}, dbOk \in BOOLEAN :
          LET res == IsAllowed(limiter, requests, u, now)
              row == GetOrCreateUser(users, u)
          IN
          IF u = NoUid THEN                      \* 400
              UNCHANGED <<requests, granted, lastCall, users, rpc, rkind,
                          ruid, rdbid>>
          ELSE
              /\ requests' = res.requests
              /\ granted' = IF res.ok THEN [granted EXCEPT ![u] = Append(@, now)]
                                      ELSE granted
              /\ lastCall' = [n |-> lastCall.n + 1, uid |-> u, ok |-> res.ok]
              /\ IF ~res.ok \/ ~dbOk THEN         \* 429, or 500
                     UNCHANGED <<users, rpc, rkind, ruid, rdbid>>
                 ELSE
                     /\ users' = row.users
                     /\ rpc' = [rpc EXCEPT ![r] = "creating"]
                     /\ rkind' = [rkind EXCEPT ![r] = "chat"]
                     /\ ruid' = [ruid EXCEPT ![r] = u]
                     /\ rdbid' = [rdbid EXCEPT ![r] = row.id]
    /\ UNCHANGED <<gvars, now, limiter, adkSessions, initialized_sessions,
                   rcontent, notes>>

\* create_session has returned or raised (the except passes): the session
\* exists; then the check of initialized_sessions, the content and the add,
\* with no await between them; then the handler waits for the runner
ChatPrepare(r) ==
    /\ rpc[r] = "creating"
    /\ rkind[r] = "chat"
    /\ LET session_id == ruid[r]
           content == IF session_id \notin initialized_sessions
                      THEN ContextPrompt(rdbid[r], USER_MESSAGE)
                      ELSE USER_MESSAGE
       IN /\ adkSessions' = adkSessions \cup {session_id}
          /\ initialized_sessions' =
                IF session_id \notin initialized_sessions
                THEN MarkInitialized(initialized_sessions, session_id)
                ELSE initialized_sessions
          /\ rcontent' = [rcontent EXCEPT ![r] = content]
          /\ notes' = [notes EXCEPT ![session_id] =
                          IF HasNote(content) THEN @ + 1 ELSE @]
    /\ rpc' = [rpc EXCEPT ![r] = "running"]
    /\ UNCHANGED <<gvars, now, limiter, requests, granted, lastCall, users,
                   rkind, ruid, rdbid, served>>

\* the handler returns or raises: its locals are gone
Return(r) ==
    /\ rpc' = [rpc EXCEPT ![r] = "idle"]
    /\ rkind' = [rkind EXCEPT ![r] = "none"]
    /\ ruid' = [ruid EXCEPT ![r] = NoUid]
    /\ rdbid' = [rdbid EXCEPT ![r] = 0]
    /\ rcontent' = [rcontent EXCEPT ![r] = <<>>]

\* run_async is exhausted (200) or raises (500): nothing is undone
ChatFinish(r) ==
    /\ rpc[r] = "running"
    /\ rkind[r] = "chat"
    /\ Return(r)
    /\ UNCHANGED <<gvars, now, limiter, requests, granted, lastCall, users,
                   adkSessions, initialized_sessions, notes, served>>

\* POST /chat/welcome up to the first await: no rate limiter here
WelcomeStart(r) ==
    /\ rpc[r] = "idle"
    /\ served < MaxCalls
    /\ served' = served + 1
    /\ \E u \in Uids \cup {NoUid}, dbOk \in BOOLEAN :
          LET row == GetOrCreateUser(users, u) IN
          IF u = NoUid \/ ~dbOk THEN             \* 400, or 500
              UNCHANGED <<users, rpc, rkind, ruid, rdbid>>
          ELSE
              /\ users' = row.users
              /\ rpc' = [rpc EXCEPT ![r] = "creating"]
              /\ rkind' = [rkind EXCEPT ![r] = "welcome"]
              /\ ruid' = [ruid EXCEPT ![r] = u]
              /\ rdbid' = [rdbid EXCEPT ![r] = row.id]
    /\ UNCHANGED <<gvars, now, limiter, requests, granted, lastCall,
                   adkSessions, initialized_sessions, rcontent, notes>>

\* after create_session: the trigger prompt, initialized_sessions.add
WelcomePrepare(r) ==
    /\ rpc[r] = "creating"
    /\ rkind[r] = "welcome"
    /\ adkSessions' = adkSessions \cup {ruid[r]}
    /\ initialized_sessions' = MarkInitialized(initialized_sessions, ruid[r])
    /\ rcontent' = [rcontent EXCEPT ![r] = TriggerPrompt(rdbid[r])]
    /\ rpc' = [rpc EXCEPT ![r] = "running"]
    /\ UNCHANGED <<gvars, now, limiter, requests, granted, lastCall, users,
                   rkind, ruid, rdbid, notes, served>>

\* run_async is exhausted, or raises and the fallback greeting is returned
WelcomeFinish(r) ==
    /\ rpc[r] = "running"
    /\ rkind[r] = "welcome"
    /\ Return(r)
    /\ UNCHANGED <<gvars, now, limiter, requests, granted, lastCall, users,
                   adkSessions, initialized_sessions, notes, served>>

\* time passes
Tick ==
    /\ now < MaxClock
    /\ now' = now + 1
    /\ UNCHANGED <<gvars, limiter, requests, granted, lastCall, users,
                   adkSessions, initialized_sessions, rpc, rkind, ruid, rdbid,
                   rcontent, notes, served>>

NextOnboarding ==
    \/ Tick
    \/ \E r \in Slots :
          \/ ChatStart(r) \/ ChatPrepare(r) \/ ChatFinish(r)
          \/ WelcomeStart(r) \/ WelcomePrepare(r) \/ WelcomeFinish(r)

\* no connection on the gateway; a limiter of every small size
LimiterSizes ==
    [max_requests : 1..MaxLimit, window_seconds : 1..MaxWindow]
InitOnboarding ==
    /\ GatewayInit
    /\ quota = [conns |-> {}, idents |-> {}, inbound |-> {}, events |-> {},
                msgs |-> 0, evs |-> 0, closeFails |-> FALSE]
    /\ \E lim \in LimiterSizes : OnboardingInit(lim)

SpecOnboarding == InitOnboarding /\ [][NextOnboarding]_vars

\* rate_limiter.is_allowed(uid), called by itself
LimiterCall(u) ==
    /\ lastCall.n < MaxLimiterCalls
    /\ LET res == IsAllowed(limiter, requests, u, now) IN
       /\ requests' = res.requests
       /\ granted' = IF res.ok THEN [granted EXCEPT ![u] = Append(@, now)]
                               ELSE granted
       /\ lastCall' = [n |-> lastCall.n + 1, uid |-> u, ok |-> res.ok]
    /\ UNCHANGED <<gvars, now, limiter, users, adkSessions, initialized_sessions,
                   rpc, rkind, ruid, rdbid, rcontent, notes, served>>

NextLimiter == Tick \/ \E u \in Uids : LimiterCall(u)

\* every sequence of is_allowed calls and clock readings, the clock never
\* going back
SpecLimiter == InitOnboarding /\ [][NextLimiter]_vars

(***************************************************************************)
(* The session lifecycle, read off the handler and its two tasks:          *)
(* CONSTRUCTING until both tasks are launched, ACTIVE while both run,      *)
(* DRAINING from the first task's end, CLOSED once the finally block ran.  *)
(***************************************************************************)
SessionState(c) ==
    IF hpc[c] = "returned" THEN "CLOSED"
    ELSE IF hpc[c] \in {"gathering", "close_raised"}
         THEN IF upc[c] = "receiving" /\ dpc[c] = "pulling"
              THEN "ACTIVE" ELSE "DRAINING"
    ELSE "CONSTRUCTING"

LifecycleSucc(s) ==
    CASE s = "CONSTRUCTING" -> {"CONSTRUCTING", "ACTIVE"}
      [] s = "ACTIVE" -> {"ACTIVE", "DRAINING"}
      [] s = "DRAINING" -> {"DRAINING", "CLOSED"}
      [] OTHER -> {"CLOSED"}

\* a structured-text frame the spec calls malformed: unparseable, not an
\* object, an unknown discriminator, or a text frame without its text
Malformed(m) ==
    /\ m.key = "text"
    /\ LET j == JsonLoads(m.text) IN
       \/ ~j.ok
       \/ ~j.isDict
       \/ DictGet(j.dict, TYPE) \notin {TEXT, IMAGE}
       \/ DictGet(j.dict, TYPE) = TEXT /\ TEXT \notin DOMAIN j.dict

UserEntries(c) == {i \in 1..Len(pushed[c]) : pushed[c][i].src > 0}
ContextEntries(c) == {i \in 1..Len(pushed[c]) : IsContext(pushed[c][i])}

(***************************************************************************)
(* Claims.                                                                 *)
(***************************************************************************)

\* C1: the entries the upstream task pushes are in the order in which the
\* messages they were built from were received: later queue positions hold
\* entries of later messages, and each entry is the one the loop body
\* builds from the message it names.
C1_FifoOrder ==
    \A c \in Conns :
        /\ \A i, j \in UserEntries(c) :
              i < j => pushed[c][i].src < pushed[c][j].src
        /\ \A i \in UserEntries(c) :
              /\ pushed[c][i].src <= Len(inlog[c])
              /\ HandleMessage(inlog[c][pushed[c][i].src], pushed[c][i].src).push
                    = <<pushed[c][i]>>

\* C1 witness: an audio frame and a text frame, both pushed, in one queue
C1_Witness ==
    \E c \in Conns :
        /\ Cardinality(UserEntries(c)) >= 2
        /\ \E i, j \in UserEntries(c) : pushed[c][i].call # pushed[c][j].call

\* C2 (as claimed): the step that receives a malformed structured-text
\* frame leaves the upstream task running and pushes nothing.
C2_MalformedFrameIsDropped ==
    [][\A c \in Conns :
          (/\ upc[c] = "receiving"
           /\ Len(inlog'[c]) = Len(inlog[c]) + 1
           /\ Malformed(inlog'[c][Len(inlog'[c])]))
          => (upc'[c] = "receiving" /\ pushed'[c] = pushed[c])]_vars

\* C3 (as claimed): once the client has disconnected while the handler
\* waits on its two tasks, no task stays blocked: until the handler has
\* returned the gateway always has a step it can take by itself, without
\* the agent runtime producing anything.
C3_DisconnectEndsHandler ==
    \A c \in Conns :
        (net[c] = "closed" /\ hpc[c] = "gathering") => ENABLED GatewayStep(c)

\* C4 (as claimed): when the handler has returned, the queue was closed
\* exactly once and the transport was closed exactly once.
C4_OneCloseOfEach ==
    \A c \in Conns :
        hpc[c] = "returned" => (qCloseCalls[c] = 1 /\ wsCloseCalls[c] = 1)

\* C5: the lifecycle of every connection only moves
\* CONSTRUCTING -> ACTIVE -> DRAINING -> CLOSED, one state at a time.
C5_LifecycleOrder ==
    [][\A c \in Conns : SessionState(c)' \in LifecycleSucc(SessionState(c))]_vars

\* C5 witness: a session that is CLOSED after its downstream task ended
\* with an error
C5_Witness ==
    \E c \in Conns : SessionState(c) = "CLOSED" /\ dout[c] = "error"

\* C6 (as claimed): once the agent's stream has completed, with the
\* client still connected and sending nothing, the gateway goes on to
\* teardown: until the handler has returned it always has a step it can
\* take by itself, without the client doing anything.
C6_AgentEndEndsHandler ==
    \A c \in Conns :
        (dpc[c] = "done" /\ dout[c] = "ok" /\ hpc[c] = "gathering" /\ net[c] = "up")
            => ENABLED GatewayStep(c)

\* C7: the first entry ever pushed on a connection's queue is the context
\* frame of that connection, every entry built from client input comes
\* after it, and no task runs before it is pushed.
C7_ContextFirst ==
    \A c \in Conns :
        /\ pushed[c] # <<>> => pushed[c][1] = ContextEntry(ident[c])
        /\ 1 \notin UserEntries(c)
        /\ (upc[c] # "none" \/ dpc[c] # "none") => pushed[c] # <<>>

\* C7 witness: a frame of client input on the queue, behind the context
C7_Witness ==
    \E c \in Conns : UserEntries(c) # {} /\ IsContext(pushed[c][1])

\* C8: a connection's queue holds exactly one context entry from the
\* moment the queue exists, and the single text frame "hi" gives exactly
\* two pushes: the context frame, then the text message.
C8_ContextOnce ==
    \A c \in Conns :
        /\ qexists[c] => Cardinality(ContextEntries(c)) = 1
        /\ ~qexists[c] => pushed[c] = <<>>
        /\ inlog[c] = <<MsgHi>> =>
              pushed[c] = <<ContextEntry(ident[c]), ContentEntry(<<>>, HI, 1)>>

\* C8 witness: the text frame "hi" was the only message received
C8_Witness ==
    \E c \in Conns : inlog[c] = <<MsgHi>> /\ Len(pushed[c]) = 2

\* C9 (as claimed): when session resolution has failed, the transport is
\* not left accepted and open, no queue exists, nothing was pushed and
\* no task was started.
C9_ResolverFailureRefuses ==
    \A c \in Conns :
        hpc[c] = "raised" =>
            /\ ~(accepted[c] /\ wsCloseCalls[c] = 0)
            /\ ~qexists[c]
            /\ pushed[c] = <<>>
            /\ upc[c] = "none" /\ dpc[c] = "none"

\* C10 (as claimed): resolution never errors and the durable session of
\* an identity is created at most once.
C10_GetOrCreateIdempotent ==
    /\ \A c \in Conns : hpc[c] # "raised"
    /\ \A id \in Idents : creates[id] <= 1


(***************************************************************************)
(* What was sent for the n-th event of a connection.                       *)
(***************************************************************************)
Last(q) == q[Len(q)]
IsPrefix(p, q) == Len(p) <= Len(q) /\ SubSeq(q, 1, Len(p)) = p

\* the payloads of the binary messages sent for event n, in order
BinaryOf(c, n) ==
    LET ms == SelectSeq(sent[c], LAMBDA e : e.kind = "bytes" /\ e.ev = n)
    IN [i \in 1..Len(ms) |-> ms[i].bytes]
\* the text messages sent for event n, in order
TextOf(c, n) == SelectSeq(sent[c], LAMBDA e : e.kind = "text" /\ e.ev = n)
\* the bytes of the audio parts of an event, in part order
AudioOf(ev) ==
    LET ps == SelectSeq(ev.content.parts, IsAudioPart)
    IN [i \in 1..Len(ps) |-> ps[i].data]
HasTranscription(ev) ==
    ev.input_transcription.present \/ ev.output_transcription.present
\* the loop body ran to its end on event n: no send raised in it
Handled(c, n) ==
    /\ n \in 1..Len(evlog[c])
    /\ n < Len(evlog[c]) \/ dout[c] # "error"

\* a structured-text frame that parses to an object whose type is neither
\* text nor image
UnknownType(m) ==
    /\ m.key = "text"
    /\ LET j == JsonLoads(m.text) IN
       j.ok /\ j.isDict /\ DictGet(j.dict, TYPE) \notin {TEXT, IMAGE}

\* C11: the messages sent to the transport are in the order of the events
\* they derive from: no message of a later event precedes a message of an
\* earlier one, and every message is one the loop body sends for its event.
C11_OutboundOrder ==
    \A c \in Conns :
        /\ \A i, j \in 1..Len(sent[c]) : i < j => sent[c][i].ev <= sent[c][j].ev
        /\ \A i \in 1..Len(sent[c]) :
              /\ sent[c][i].ev \in 1..Len(evlog[c])
              /\ LET outs == Outbound(evlog[c][sent[c][i].ev], sent[c][i].ev)
                 IN \E k \in 1..Len(outs) : outs[k] = sent[c][i]

\* C11 witness: messages of two different events were sent
C11_Witness ==
    \E c \in Conns : \E i, j \in 1..Len(sent[c]) : sent[c][i].ev < sent[c][j].ev

\* C12: an image frame whose data is the base64 text of the bytes b, with
\* mime type m, gives exactly one push: a realtime blob with bytes b and
\* mime type m.
C12_ImageFrameDecoded ==
    \A c \in Conns : \A k \in 1..Len(inlog[c]) :
        \A m \in ImageMimes, b \in ImagePayloads :
            inlog[c][k] = ImageMsg(m, b) =>
                LET es == {i \in 1..Len(pushed[c]) : pushed[c][i].src = k} IN
                /\ Cardinality(es) = 1
                /\ \A i \in es :
                      /\ pushed[c][i].call = "send_realtime"
                      /\ pushed[c][i].data = b
                      /\ pushed[c][i].mime = m

\* C12 witness: a four-byte image was received and pushed
C12_Witness ==
    \E c \in Conns :
        /\ inlog[c] = <<ImageMsg(JPEG, <<250, 251, 252, 253>>)>>
        /\ Len(pushed[c]) = 2

C15_UnknownTypeNoEffect ==
    [][\A c \in Conns :
          (/\ upc[c] = "receiving"
           /\ Len(inlog'[c]) = Len(inlog[c]) + 1
           /\ UnknownType(Last(inlog'[c])))
          => /\ pushed'[c] = pushed[c]
             /\ sent'[c] = sent[c]
             /\ upc'[c] = "receiving"]_vars

\* C15 witness: a frame of unknown type was received, then the text frame
\* after it was received and pushed
C15_Witness ==
    \E c \in Conns :
        /\ inlog[c] = <<MsgUnknownType, MsgHi>>
        /\ Len(pushed[c]) = 2

\* C16: once a queue has been closed, nothing more is pushed onto it.
C16_NoPushAfterClose ==
    [][\A c \in Conns : qclosed[c] => pushed'[c] = pushed[c]]_vars

\* C16 witness: a queue that took user frames and was then closed
C16_Witness ==
    \E c \in Conns : qclosed[c] /\ UserEntries(c) # {}

\* C17 (as claimed): once the downstream task has ended with an error,
\* with the client still connected and sending nothing, the upstream task
\* is cancelled and teardown runs: until the handler has returned the
\* gateway always has a step it can take by itself.
C17_DownstreamFaultCancelsUpstream ==
    \A c \in Conns :
        (dpc[c] = "done" /\ dout[c] = "error" /\ hpc[c] = "gathering" /\ net[c] = "up")
            => ENABLED GatewayStep(c)

\* C18: whenever the handler has returned, its queue has been closed, and
\* the handler raises only before the tasks are launched.
C18_ReturnAfterTeardown ==
    \A c \in Conns :
        /\ hpc[c] = "returned" => qclosed[c]
        /\ hpc[c] = "raised" => (upc[c] = "none" /\ dpc[c] = "none")

\* C18 witness: the handler returned after a task ended with an error
C18_Witness ==
    \E c \in Conns : hpc[c] = "returned" /\ uout[c] = "error" /\ qclosed[c]

\* C19: after the upstream task ended with an error it receives and pushes
\* nothing more, and after the downstream task ended with an error it
\* sends nothing more and takes no further event.
C19_NoRetry ==
    [][\A c \in Conns :
          /\ uout[c] = "error" =>
                (inlog'[c] = inlog[c] /\ pushed'[c] = pushed[c] /\ upc'[c] = "done")
          /\ dout[c] = "error" =>
                (sent'[c] = sent[c] /\ evlog'[c] = evlog[c] /\ dpc'[c] = "done")]_vars

\* C19 witness: a send failed while the stream was open and had more to
\* give, and a receive failed
C19_Witness ==
    \E c \in Conns :
        /\ dout[c] = "error" /\ stream[c] = "open" /\ Len(evlog[c]) < quota.evs
        /\ uout[c] = "error" /\ net[c] = "failed"

\* C20 (as claimed): the upstream task ends with an error only when a
\* receive failed for another reason than a clean close.
C20_ErrorOnlyOnReceiveFailure ==
    \A c \in Conns : uout[c] = "error" => net[c] = "failed"

\* an image frame whose data does not base64-decode
DecodeFails(m) ==
    /\ m.key = "text"
    /\ LET j == JsonLoads(m.text) IN
       /\ j.ok /\ j.isDict /\ DictGet(j.dict, TYPE) = IMAGE
       /\ ~B64Decode(DictGet(j.dict, DATA)).ok

\* C21: an image frame whose data fails to decode (bad or missing) leaves
\* no entry on the queue, and the upstream task is still receiving after
\* it: while that frame is the last one received, the task has ended only
\* if the transport has gone.
C21_DecodeFailureDropsFrame ==
    \A c \in Conns : \A k \in 1..Len(inlog[c]) :
        DecodeFails(inlog[c][k]) =>
            /\ \A i \in 1..Len(pushed[c]) : pushed[c][i].src # k
            /\ k = Len(inlog[c]) => (upc[c] = "receiving" \/ net[c] # "up")

\* C21 witness: a frame without data and a frame with bad data were
\* received, nothing was pushed for them, and the task receives on
C21_Witness ==
    \E c \in Conns :
        /\ inlog[c] = <<MsgImageNoData, MsgImageBadData>>
        /\ Len(pushed[c]) = 1
        /\ upc[c] = "receiving"
        /\ net[c] = "up"

\* C22 (as claimed): when the close of the queue has raised during
\* teardown, the handler has still returned normally and the session is
\* CLOSED.
C22_ReleaseErrorNotReraised ==
    \A c \in Conns :
        (qCloseCalls[c] > 0 /\ ~qclosed[c])
            => (hpc[c] = "returned" /\ SessionState(c) = "CLOSED")

\* C23: a step in which a connection receives a message changes only that
\* connection's queue, and changes it by exactly the entries the loop body
\* builds from the message; a step that closes one connection's queue
\* changes no other connection's queue, also when both connections carry
\* the same (user_id, session_id).
C23_QueuePerConnection ==
    [][\A c \in Conns : \A d \in Conns \ {c} :
          /\ Len(inlog'[c]) > Len(inlog[c]) =>
                /\ pushed'[d] = pushed[d]
                /\ pushed'[c] = pushed[c]
                      \o HandleMessage(Last(inlog'[c]), Len(inlog'[c])).push
          /\ qclosed'[c] # qclosed[c] =>
                (qclosed'[d] = qclosed[d] /\ pushed'[d] = pushed[d])]_vars

\* C23 witness: two connections with the same identity, both with a queue;
\* one took a frame and its queue was closed, the other's queue is open
\* and holds only its context
C23_Witness ==
    \E c \in Conns : \E d \in Conns \ {c} :
        /\ ident[c] = ident[d]
        /\ qclosed[c] /\ UserEntries(c) # {}
        /\ hpc[d] = "gathering" /\ ~qclosed[d] /\ Len(pushed[d]) = 1

\* C24: in every reachable state, each binary message received so far has
\* exactly one entry on the queue, a realtime blob with the audio mime
\* type and exactly the message's bytes; the entry is there from the
\* state in which the message was received, before any later receive.
C24_OnePushPerBinaryMessage ==
    \A c \in Conns : \A k \in 1..Len(inlog[c]) :
        inlog[c][k].key = "bytes" =>
            LET es == {i \in 1..Len(pushed[c]) : pushed[c][i].src = k} IN
            /\ Cardinality(es) = 1
            /\ \A i \in es :
                  pushed[c][i] = BlobEntry(AudioMime, inlog[c][k].bytes, k)

\* C24 witness: two binary messages in a row, each with its own entry
C24_Witness ==
    \E c \in Conns :
        /\ inlog[c] = <<MsgAudio, MsgAudio>>
        /\ Len(pushed[c]) = 3
        /\ pushed[c][2].data = <<0, 1>> /\ pushed[c][3].data = <<0, 1>>

\* an event that is neither audio output nor a transcription
OtherEvent(ev) == AudioOf(ev) = <<>> /\ ~HasTranscription(ev)

C26_CloseAfterBothTasks ==
    \A c \in Conns :
        /\ (qclosed[c] \/ qCloseCalls[c] > 0) => (upc[c] = "done" /\ dpc[c] = "done")
        /\ (upc[c] = "receiving" \/ dpc[c] = "pulling") => ~qclosed[c]

\* C26 witness: the downstream task ended first, the upstream task went
\* on receiving and pushing, and the queue was closed after both had ended
C26_Witness ==
    \E c \in Conns :
        /\ qclosed[c] /\ dout[c] = "ok" /\ uout[c] = "clean"
        /\ evlog[c] = <<>> /\ Len(inlog[c]) >= 2

\* C27: if the transport eventually ends and the agent's stream eventually
\* is over (or a send fails), a handler that has launched its two tasks
\* eventually returns with its queue closed, however the two tasks ended.
C27_HandlerReturnsQueueClosed ==
    \A c \in Conns :
        (hpc[c] = "gathering") ~> (hpc[c] = "returned" /\ qclosed[c])

\* C27 witness: both tasks ended with an exception and the handler
\* returned with the queue closed
C27_Witness ==
    \E c \in Conns :
        /\ hpc[c] = "returned" /\ qclosed[c]
        /\ uout[c] = "error" /\ dout[c] = "error" /\ stream[c] = "raised"

\* the step in which request r builds the content it hands to the runner
BuildsContent(r, kind) ==
    rpc[r] = "creating" /\ rkind[r] = kind /\ rpc'[r] = "running"

\* C28: for every session id at most one /chat content carries the
\* database-id note; a /chat request prefixes the note exactly when its
\* session id is not in initialized_sessions, and the id is in the set
\* after that same step; /chat/welcome never sends the note; and no step
\* (the end of a failed agent run included) takes an id out of the set.
C28_ContextNoteOnce ==
    [][/\ initialized_sessions \subseteq initialized_sessions'
       /\ \A u \in Uids : notes'[u] <= 1
       /\ \A r \in Slots :
             /\ BuildsContent(r, "chat") =>
                   /\ HasNote(rcontent'[r]) <=> ruid[r] \notin initialized_sessions
                   /\ ruid[r] \in initialized_sessions'
                   /\ rcontent'[r] = IF HasNote(rcontent'[r])
                                     THEN ContextPrompt(rdbid[r], USER_MESSAGE)
                                     ELSE USER_MESSAGE
             /\ BuildsContent(r, "welcome") =>
                   /\ ~HasNote(rcontent'[r])
                   /\ ruid[r] \in initialized_sessions']_vars

\* C28 witness: a /chat request carried the note, its run is over, and a
\* later /chat request of the same session id is running without the note
C28_Witness ==
    \E r \in Slots :
        /\ rpc[r] = "running" /\ rkind[r] = "chat"
        /\ rcontent[r] = USER_MESSAGE
        /\ notes[ruid[r]] = 1
        /\ \A q \in Slots \ {r} : rpc[q] = "idle"

\* the calls of uid that returned True at a time in (t - window_seconds, t]
GrantedInWindow(uid, t) ==
    {i \in 1..Len(granted[uid]) :
        granted[uid][i] > t - limiter.window_seconds /\ granted[uid][i] <= t}

\* C29: with a clock that never goes back, for every uid and every window
\* of window_seconds (the times after t - window_seconds up to t) at most
\* max_requests is_allowed calls returned True, and the stored list of a
\* uid never holds more than max_requests timestamps.
C29_AtMostMaxPerWindow ==
    \A u \in Uids :
        /\ Len(requests[u]) <= limiter.max_requests
        /\ \A t \in 0..MaxClock :
              Cardinality(GrantedInWindow(u, t)) <= limiter.max_requests

\* C29 witness: a uid with a limit of two was refused after two calls were
\* allowed, and was allowed again once the window had passed
C29_Witness ==
    \E u \in Uids :
        /\ limiter.max_requests = 2
        /\ Len(granted[u]) = 3
        /\ lastCall.n = 4 /\ lastCall.uid = u /\ lastCall.ok
        /\ granted[u][3] >= granted[u][1] + limiter.window_seconds

\* whether is_allowed(uid) would return True at time t on the lists reqs
WouldAllow(reqs, uid, t) == IsAllowed(limiter, reqs, uid, t).ok

\* C30: a step that calls is_allowed for a uid leaves the stored lists of
\* every other uid as they were; when the call returns False, the list of
\* the uid only loses its expired timestamps, no call is recorded as
\* allowed, and at every later time the uid would be allowed exactly when
\* it would have been allowed without the refused call.
C30_RefusedCallRecordsNothing ==
    [][lastCall'.n # lastCall.n =>
          LET u == lastCall'.uid IN
          /\ \A v \in Uids \ {u} :
                requests'[v] = requests[v] /\ granted'[v] = granted[v]
          /\ ~lastCall'.ok =>
                /\ requests'[u] = Prune(requests[u], now - limiter.window_seconds)
                /\ granted'[u] = granted[u]
                /\ \A t \in now..(MaxClock + MaxWindow) :
                      WouldAllow(requests', u, t) <=> WouldAllow(requests, u, t)]_vars

\* C30 witness: with a limit of one, a uid was allowed, then refused, then
\* allowed again exactly window_seconds after the first call, while the
\* other uid made no call
C30_Witness ==
    \E u \in Uids :
        /\ limiter.max_requests = 1
        /\ lastCall = [n |-> 3, uid |-> u, ok |-> TRUE]
        /\ Len(granted[u]) = 2
        /\ granted[u][2] = granted[u][1] + limiter.window_seconds
        /\ \A v \in Uids \ {u} : granted[v] = <<>>

====
